---- MODULE Spec2Model ----
(***************************************************************************)
(* State-machine model of the client of the document question-answering    *)
(* product: the streaming chat hook (useChat.ts), the document status      *)
(* poller (useDocuments.ts) and the session/token store (api.ts,           *)
(* useAuth.ts).                                                            *)
(*                                                                         *)
(* Conventions.  A text is a sequence of symbols, so that concatenation    *)
(* (+=, template strings) is \o and the empty string is << >>.  An         *)
(* optional value (a field that may be undefined, a nullable variable) is  *)
(* a sequence of length at most one: Undefined or Some(x).                 *)
(***************************************************************************)
EXTENDS Integers, Sequences, FiniteSets, TLC

VARIABLES
    limits,         \* the bounds of the explored scenario (never changes)
    now,            \* the millisecond clock read by Date.now()
    chat,           \* useChat: ChatState {messages, loading, selectedDocs, error}
    calls,          \* one frame per askQuestion invocation that passed its guard
    yielded,        \* number of chunks the /ask streams have yielded (history)
    docs,           \* useDocuments: DocumentListState {documents, loading, error}
    server,         \* the backend's record of each uploaded document
    pollers,        \* one pollDocumentStatus closure per uploaded document
    loads,          \* number of loadDocuments calls awaiting their response: the
                    \* mount effect of useDocuments is the only caller
    authToken,      \* api.ts: let authToken
    defaultAuth,    \* api.ts: api.defaults.headers.Authorization
    savedToken,     \* localStorage: the entry 'auth_token'
    location,       \* window.location: the page shown
    savedUser,      \* localStorage: the entry 'user'
    auth,           \* useAuth: AuthState {user, token, loading, error}
    mounted,        \* the mount effect of AuthProvider has run
    pending,        \* the axios calls of the session awaiting their response
    lastResponse,   \* the outcome of the call settled last (history)
    parser,         \* api.ts: one run of the generator parseStreamingResponse
    form,           \* register.tsx: the state of the registration form
    page            \* chat page: the question box and what the last render saw

chatVars == <<now, chat, calls, yielded>>
docVars == <<docs, server, pollers, loads>>
tokenVars == <<authToken, defaultAuth, savedToken, location>>
sessionVars == <<savedUser, auth, mounted, pending>>
authVars == <<tokenVars, sessionVars, lastResponse>>
vars == <<limits, chatVars, docVars, authVars, parser, form, page>>

---------------------------------------------------------------------------
(* Bounds of the model *)

\* The stream reducer is explored with MaxCalls askQuestion calls whose streams
\* yield MaxEvents chunks in all; retries are explored with MaxTurns calls
\* whose streams yield MaxTurnEvents chunks in all.
MaxCalls == 1
MaxEvents == 2
MaxTurns == 2
MaxTurnEvents == 1

---------------------------------------------------------------------------
(* Optional values and texts *)

Undefined == << >>
Some(x) == <<x>>
Truthy(o) == o = Some(TRUE)

RemoveAt(s, i) == SubSeq(s, 1, i - 1) \o SubSeq(s, i + 1, Len(s))

\* String.prototype.trim on a text whose only whitespace symbol is " "
RECURSIVE TrimStart(_)
TrimStart(t) == IF t # << >> /\ Head(t) = " " THEN TrimStart(Tail(t)) ELSE t

RECURSIVE TrimEnd(_)
TrimEnd(t) ==
    IF t # << >> /\ t[Len(t)] = " " THEN TrimEnd(SubSeq(t, 1, Len(t) - 1)) ELSE t

\* A trim that removes nothing.
TrimNothing(t) == t

Trim(t) == TrimEnd(TrimStart(t))

---------------------------------------------------------------------------
(* api.ts: error normalisation *)

\* An Error thrown by the fetch path or by the stream loop: only a message.
ErrorOf(message) == [message |-> message, response |-> Undefined]

\* An axios error carrying a response {status, data.detail}.
AxiosError(status, detail) ==
    [message |-> <<"Request failed">>,
     response |-> Some([status |-> status, detail |-> detail])]

HandleApiError(err) ==
    IF err.response # Undefined /\ err.response[1].detail # << >>
    THEN [detail |-> err.response[1].detail, status |-> Some(err.response[1].status)]
    ELSE IF err.message # << >>
    THEN [detail |-> err.message,
          status |-> IF err.response # Undefined
                     THEN Some(err.response[1].status) ELSE Undefined]
    ELSE [detail |-> <<"An unexpected error occurred">>, status |-> Some(500)]

---------------------------------------------------------------------------
(* useChat.ts *)

\* The questions asked: one with text (and a leading blank, which trim would
\* drop), one of blanks only, the empty one.
Questions == {<<" ", "q">>, <<" ">>, << >>}
DocIds == {"d1"}

\* The payload of a `complete` event.
FinalResponse == [answer |-> <<"A">>, citations |-> <<"c2">>]

Chunk(type, content, citation, final, err) ==
    [type |-> type, content |-> content, citation |-> citation,
     final_response |-> final, error |-> err]

\* The StreamChunk values a stream may yield: token events with and without
\* text, a citation, a complete event with and without its payload, an error
\* event with and without its text.
Chunks ==
    {Chunk("token", c, Undefined, Undefined, << >>) : c \in {<< >>, <<"a">>, <<"b">>}}
    \cup {Chunk("citation", << >>, Some("c1"), Undefined, << >>)}
    \cup {Chunk("complete", << >>, Undefined, f, << >>) : f \in {Undefined, Some(FinalResponse)}}
    \cup {Chunk("error", << >>, Undefined, Undefined, e) : e \in {<< >>, <<"boom">>}}

\* The ways chatApi.askQuestion throws: fetch rejects (no response), the
\* response is not ok and the Error carries the detail of its body or, when
\* the body has none, the fallback text, or the response has no body.
AskFailures ==
    {[status |-> Undefined, message |-> <<"Failed to fetch">>],
     [status |-> Some(401), message |-> <<"Not authenticated">>],
     [status |-> Some(500), message |-> <<"Failed to ask question">>],
     [status |-> Some(200), message |-> <<"No response body">>]}

\* The outcome of a settled call: its kind and the status of its response,
\* if there was one.
Outcome(kind, status) == Some([kind |-> kind, status |-> status])

\* A rejected reader.read() in the middle of a stream.
ReadFailure == ErrorOf(<<"network error">>)

\* Date.now(): the clock has advanced by d milliseconds since it was last read.
ClockSteps == {0, 1}
DateNow(d) == now + d

\* The model's own name of a message (ids may coincide): the k-th message
\* created.  The user message of call e is 2e-1, its placeholder 2e.
UserKey(e) == 2 * e - 1
AssistantKey(e) == 2 * e

NewMessage(key, id, role, content, loadingFlag) ==
    [key |-> key, id |-> id, role |-> role, content |-> content,
     citations |-> Undefined, loading |-> loadingFlag]

\* An addMessage that puts the new message first.
PrependMessage(messages, message) == <<message>> \o messages

\* [...prev.messages, newMessage]
AddMessage(messages, message) == Append(messages, message)

\* { ...msg, ...updates } for every message whose id is messageId
UpdateMessage(messages, messageId, updates) ==
    [i \in DOMAIN messages |->
        IF messages[i].id = messageId
        THEN [f \in DOMAIN messages[i] |->
                 IF f \in DOMAIN updates THEN updates[f] ELSE messages[i][f]]
        ELSE messages[i]]

\* prev.messages.filter(msg => msg.id !== messageId)
RECURSIVE RemoveMessage(_, _)
RemoveMessage(messages, messageId) ==
    IF messages = << >> THEN << >>
    ELSE IF Head(messages).id # messageId
         THEN <<Head(messages)>> \o RemoveMessage(Tail(messages), messageId)
         ELSE RemoveMessage(Tail(messages), messageId)

\* A reducer that puts the newest token first.
PrependToken(fullResponse, content) == content \o fullResponse

\* fullResponse += chunk.content
AppendToken(fullResponse, content) == fullResponse \o content

\* The update of the `token` branch that follows the first-token update.
TokenUpdates(fullResponse) == [content |-> fullResponse]

\* A `complete` branch that keeps the accumulated text.
CompleteUpdatesKeepingText(final) ==
    [citations |-> Some(final.citations), loading |-> Some(FALSE)]

\* The update of the `complete` branch.
CompleteUpdates(final) ==
    [content |-> final.answer, citations |-> Some(final.citations), loading |-> Some(FALSE)]

\* A catch block that writes the error text and leaves the loading flag.
ErrorUpdatesStillLoading(apiError) ==
    [content |-> <<"Sorry, I encountered an error: ">> \o apiError.detail]

\* The update of the catch block.
ErrorUpdates(apiError) ==
    [content |-> <<"Sorry, I encountered an error: ">> \o apiError.detail,
     loading |-> Some(FALSE)]

\* `Bearer ${token}`: a null token is spelled "null" by the template string.
Bearer(token) == <<"Bearer ">> \o (IF token = Undefined THEN <<"null">> ELSE token)

\* The request askQuestion builds from the question and the selection.
QuestionRequest(question) ==
    [question |-> question,
     doc_ids |-> IF Cardinality(chat.selectedDocs) > 0
                 THEN Some(chat.selectedDocs) ELSE Undefined,
     k |-> 6,
     authorization |-> Bearer(authToken)]

\* askQuestion up to its first await, run on the message list `messages`
\* (retryQuestion runs it right after removeMessage): the guard, the loading
\* flag, the two addMessage calls and the request.
Asking(messages, question, retried, d1, d2) ==
    IF Trim(question) = << >>
    THEN /\ chat' = [chat EXCEPT !.messages = messages]
         /\ UNCHANGED <<now, calls, yielded>>
    ELSE LET e == Len(calls) + 1
             userMessageId == DateNow(d1)
             assistantMessageId == userMessageId + d2
             userMessage ==
                 NewMessage(UserKey(e), userMessageId, "user", question, Undefined)
             assistantMessage ==
                 NewMessage(AssistantKey(e), assistantMessageId, "assistant",
                            << >>, Some(TRUE))
         IN /\ Len(calls) < limits.calls
            /\ now' = assistantMessageId
            /\ UNCHANGED yielded
            /\ chat' = [chat EXCEPT
                   !.loading = TRUE,
                   !.error = Undefined,
                   !.messages = AddMessage(AddMessage(messages, userMessage),
                                           assistantMessage)]
            /\ calls' = Append(calls,
                   [pc |-> "fetch",
                    question |-> question,
                    userMessageId |-> userMessageId,
                    assistantMessageId |-> assistantMessageId,
                    request |-> QuestionRequest(question),
                    fullResponse |-> << >>,
                    citations |-> << >>,
                    isFirstToken |-> TRUE,
                    delivered |-> << >>,
                    retried |-> retried])

AskQuestion(question) ==
    /\ \E d1, d2 \in ClockSteps : Asking(chat.messages, question, Undefined, d1, d2)
    /\ UNCHANGED <<docVars, authVars, limits, parser, form, page>>

\* chatApi.askQuestion resolves with the response body.
AskResolves(e) ==
    /\ calls[e].pc = "fetch"
    /\ calls' = [calls EXCEPT ![e].pc = "stream"]
    /\ lastResponse' = Outcome("ask", Some(200))
    /\ UNCHANGED <<now, chat, yielded, docVars, tokenVars, sessionVars, limits, parser, form, page>>

\* askQuestion has returned: its locals are gone, what remains of the frame is
\* how it ended and what it was given.
Returned(frame, how) ==
    [frame EXCEPT !.pc = how, !.fullResponse = << >>, !.citations = << >>,
                  !.isFirstToken = TRUE, !.delivered = << >>]

\* A catch block that reports the error and sends the request again.
CaughtThenRetried(e, err, frame) ==
    LET apiError == HandleApiError(err)
    IN /\ chat' = [chat EXCEPT
              !.messages = UpdateMessage(chat.messages, calls[e].assistantMessageId,
                                         ErrorUpdates(apiError)),
              !.loading = FALSE,
              !.error = Some(apiError.detail)]
       /\ calls' = [calls EXCEPT ![e] = Returned(frame, "fetch")]

\* The catch block of askQuestion.
Caught(e, err, frame) ==
    LET apiError == HandleApiError(err)
    IN /\ chat' = [chat EXCEPT
              !.messages = UpdateMessage(chat.messages, calls[e].assistantMessageId,
                                         ErrorUpdates(apiError)),
              !.loading = FALSE,
              !.error = Some(apiError.detail)]
       /\ calls' = [calls EXCEPT ![e] = Returned(frame, "failed")]

\* chatApi.askQuestion throws: fetch is not the axios instance, so no
\* interceptor sees the response.
AskFails(e, failure) ==
    /\ calls[e].pc = "fetch"
    /\ Caught(e, ErrorOf(failure.message), calls[e])
    /\ lastResponse' = Outcome("ask", failure.status)
    /\ UNCHANGED <<now, yielded, docVars, tokenVars, sessionVars, limits, parser, form, page>>

\* A loop whose `citation` branch shows each citation as it arrives.
ApplyChunkCiting(e, chunk) ==
    LET frame == [calls[e] EXCEPT !.delivered = Append(@, chunk)]
        id == calls[e].assistantMessageId
    IN /\ calls[e].pc = "stream"
       /\ yielded < limits.events
       /\ yielded' = yielded + 1
       /\ IF chunk.type = "token" /\ chunk.content # << >>
          THEN LET cleared == IF frame.isFirstToken
                              THEN UpdateMessage(chat.messages, id,
                                                 [loading |-> Some(FALSE)])
                              ELSE chat.messages
                   fullResponse == AppendToken(frame.fullResponse, chunk.content)
               IN /\ chat' = [chat EXCEPT !.messages =
                         UpdateMessage(cleared, id, TokenUpdates(fullResponse))]
                  /\ calls' = [calls EXCEPT ![e] =
                         [frame EXCEPT !.isFirstToken = FALSE,
                                       !.fullResponse = fullResponse]]
          ELSE IF chunk.type = "citation" /\ chunk.citation # Undefined
          THEN /\ calls' = [calls EXCEPT ![e] =
                      [frame EXCEPT !.citations = Append(@, chunk.citation[1])]]
               /\ chat' = [chat EXCEPT !.messages =
                      UpdateMessage(chat.messages, id,
                          [citations |-> Some(Append(frame.citations,
                                                     chunk.citation[1]))])]
          ELSE IF chunk.type = "complete" /\ chunk.final_response # Undefined
          THEN /\ chat' = [chat EXCEPT !.messages =
                      UpdateMessage(chat.messages, id,
                                    CompleteUpdates(chunk.final_response[1]))]
               /\ calls' = [calls EXCEPT ![e] = frame]
          ELSE IF chunk.type = "error"
          THEN Caught(e, ErrorOf(IF chunk.error # << >> THEN chunk.error
                                 ELSE <<"Unknown error occurred">>), frame)
          ELSE /\ calls' = [calls EXCEPT ![e] = frame]
               /\ UNCHANGED chat
       /\ UNCHANGED <<now, docVars, authVars, limits, parser, form, page>>

\* One iteration of the for-await loop on the next chunk of the stream.
ApplyChunk(e, chunk) ==
    LET frame == [calls[e] EXCEPT !.delivered = Append(@, chunk)]
        id == calls[e].assistantMessageId
    IN /\ calls[e].pc = "stream"
       /\ yielded < limits.events
       /\ yielded' = yielded + 1
       /\ IF chunk.type = "token" /\ chunk.content # << >>
          THEN LET cleared == IF frame.isFirstToken
                              THEN UpdateMessage(chat.messages, id,
                                                 [loading |-> Some(FALSE)])
                              ELSE chat.messages
                   fullResponse == AppendToken(frame.fullResponse, chunk.content)
               IN /\ chat' = [chat EXCEPT !.messages =
                         UpdateMessage(cleared, id, TokenUpdates(fullResponse))]
                  /\ calls' = [calls EXCEPT ![e] =
                         [frame EXCEPT !.isFirstToken = FALSE,
                                       !.fullResponse = fullResponse]]
          ELSE IF chunk.type = "citation" /\ chunk.citation # Undefined
          THEN /\ calls' = [calls EXCEPT ![e] =
                      [frame EXCEPT !.citations = Append(@, chunk.citation[1])]]
               /\ UNCHANGED chat
          ELSE IF chunk.type = "complete" /\ chunk.final_response # Undefined
          THEN /\ chat' = [chat EXCEPT !.messages =
                      UpdateMessage(chat.messages, id,
                                    CompleteUpdates(chunk.final_response[1]))]
               /\ calls' = [calls EXCEPT ![e] = frame]
          ELSE IF chunk.type = "error"
          THEN Caught(e, ErrorOf(IF chunk.error # << >> THEN chunk.error
                                 ELSE <<"Unknown error occurred">>), frame)
          ELSE /\ calls' = [calls EXCEPT ![e] = frame]
               /\ UNCHANGED chat
       /\ UNCHANGED <<now, docVars, authVars, limits, parser, form, page>>

\* reader.read() rejects: the generator throws into the loop.
ReadFails(e) ==
    /\ calls[e].pc = "stream"
    /\ Caught(e, ReadFailure, calls[e])
    /\ UNCHANGED <<now, yielded, docVars, authVars, limits, parser, form, page>>

\* The stream is done: the loop ends and line 109 runs.
StreamEnds(e) ==
    /\ calls[e].pc = "stream"
    /\ chat' = [chat EXCEPT !.loading = FALSE]
    /\ calls' = [calls EXCEPT ![e] = Returned(calls[e], "done")]
    /\ UNCHANGED <<now, yielded, docVars, authVars, limits, parser, form, page>>

\* The index of the first message with the given id (Array.prototype.find /
\* findIndex), 0 when there is none.
IndexOfId(messages, messageId) ==
    IF \E i \in DOMAIN messages : messages[i].id = messageId
    THEN CHOOSE i \in DOMAIN messages :
             /\ messages[i].id = messageId
             /\ \A j \in 1..(i - 1) : messages[j].id # messageId
    ELSE 0

\* The index of the first assistant message after position `after`, 0 when
\* there is none.
AssistantIndexAfter(messages, after) ==
    IF \E i \in DOMAIN messages : i > after /\ messages[i].role = "assistant"
    THEN CHOOSE i \in DOMAIN messages :
             /\ i > after /\ messages[i].role = "assistant"
             /\ \A j \in (after + 1)..(i - 1) : messages[j].role # "assistant"
    ELSE 0

RetryQuestion(messageId) ==
    LET at == IndexOfId(chat.messages, messageId)
        assistantMessageIndex == AssistantIndexAfter(chat.messages, at)
        remaining ==
            IF assistantMessageIndex # 0
            THEN RemoveMessage(chat.messages, chat.messages[assistantMessageIndex].id)
            ELSE chat.messages
    IN /\ at # 0
       /\ chat.messages[at].role = "user"
       /\ \E d1, d2 \in ClockSteps :
              Asking(remaining, chat.messages[at].content, Some(messageId), d1, d2)
       /\ UNCHANGED <<docVars, authVars, limits, parser, form, page>>

\* isWaitingForResponse: state.loading || state.messages.some(msg => msg.loading)
IsWaitingForResponse(state) ==
    state.loading \/ \E i \in DOMAIN state.messages : Truthy(state.messages[i].loading)

\* The Retry control of the chat page, rendered on an assistant message that
\* is not loading: its handler passes the id of that message.
RetryShown(message) == message.role = "assistant" /\ ~Truthy(message.loading)

OnRetry(i) ==
    /\ RetryShown(chat.messages[i])
    /\ RetryQuestion(chat.messages[i].id)

ClearMessages ==
    /\ chat' = [chat EXCEPT !.messages = << >>, !.error = Undefined]
    /\ UNCHANGED <<now, calls, yielded, docVars, authVars, limits, parser, form, page>>

ClearError ==
    /\ chat' = [chat EXCEPT !.error = Undefined]
    /\ UNCHANGED <<now, calls, yielded, docVars, authVars, limits, parser, form, page>>

SetSelectedDocs(docIds) ==
    /\ chat' = [chat EXCEPT !.selectedDocs = docIds]
    /\ UNCHANGED <<now, calls, yielded, docVars, authVars, limits, parser, form, page>>

InitChat ==
    /\ now = 0
    /\ chat = [messages |-> << >>, loading |-> FALSE,
               selectedDocs |-> {}, error |-> Undefined]
    /\ calls = << >>
    /\ yielded = 0

\* The exchanges: questions asked, their streams applied, the list cleared.
NextChat ==
    \/ \E question \in Questions : AskQuestion(question)
    \/ \E e \in DOMAIN calls : AskResolves(e)
    \/ \E e \in DOMAIN calls : \E failure \in AskFailures : AskFails(e, failure)
    \/ \E e \in DOMAIN calls : \E chunk \in Chunks : ApplyChunk(e, chunk)
    \/ \E e \in DOMAIN calls : ReadFails(e)
    \/ \E e \in DOMAIN calls : StreamEnds(e)
    \/ ClearMessages

\* Questions asked one after another or at once, none of their streams
\* yielding a chunk.
NextAsk ==
    \/ \E question \in Questions : AskQuestion(question)
    \/ \E e \in DOMAIN calls : AskResolves(e)
    \/ \E e \in DOMAIN calls : \E failure \in AskFailures : AskFails(e, failure)
    \/ \E e \in DOMAIN calls : ReadFails(e)
    \/ \E e \in DOMAIN calls : StreamEnds(e)
    \/ ClearMessages

\* The exchanges and the retry control.
NextRetry ==
    \/ NextChat
    \/ \E messageId \in 0..now : RetryQuestion(messageId)
    \/ \E i \in DOMAIN chat.messages : OnRetry(i)

\* Repeated retries are explored with MaxRetryCalls calls whose requests
\* stay unanswered or fail.
MaxRetryCalls == 3

\* Questions asked, failed, and retried by the id of any message.
NextRetries ==
    \/ \E question \in Questions : AskQuestion(question)
    \/ \E e \in DOMAIN calls : \E failure \in AskFailures : AskFails(e, failure)
    \/ \E messageId \in 0..now : RetryQuestion(messageId)

---------------------------------------------------------------------------
(* api.ts: the token store and the response interceptor *)

\* A setAuthToken whose clearing branch leaves the storage entry in place.
SetAuthTokenKeepingEntry(token) ==
    /\ authToken' = token
    /\ IF token # Undefined
       THEN /\ defaultAuth' = Some(Bearer(token))
            /\ savedToken' = token
       ELSE /\ defaultAuth' = Undefined
            /\ UNCHANGED savedToken

SetAuthToken(token) ==
    /\ authToken' = token
    /\ IF token # Undefined
       THEN /\ defaultAuth' = Some(Bearer(token))
            /\ savedToken' = token
       ELSE /\ defaultAuth' = Undefined
            /\ savedToken' = Undefined

\* The rejection handler of api.interceptors.response on a response with
\* the given status.
Interceptor(status) ==
    IF status = 401
    THEN /\ SetAuthToken(Undefined)
         /\ location' = "/login"
    ELSE UNCHANGED tokenVars

\* The statuses of the error responses explored: 401, and 500 for every
\* other failure.
FailureStatuses == {401, 500}

\* The axios error of a response with the given status: the body of a 401
\* carries a detail, the body of a 500 does not.
Rejection(status) ==
    AxiosError(status, IF status = 401 THEN <<"Not authenticated">> ELSE << >>)

---------------------------------------------------------------------------
(* useDocuments.ts *)

maxAttempts == 60

\* Documents uploaded.
MaxDocs == 1

FileNames == {"a.pdf"}

\* GET /documents/{d}: the backend's Document.  Its `error` is present only
\* when processing failed.
StatusBody(d) ==
    IF server[d].status = "failed"
    THEN [id |-> d, user_id |-> <<"u1">>, name |-> server[d].name,
          status |-> "failed", error |-> Some(<<"unreadable">>)]
    ELSE [id |-> d, user_id |-> <<"u1">>, name |-> server[d].name,
          status |-> server[d].status]

\* The same Document as an element of the body of GET /documents.
Listed(d) ==
    [id |-> d, user_id |-> <<"u1">>, name |-> server[d].name,
     status |-> server[d].status,
     error |-> IF server[d].status = "failed" THEN Some(<<"unreadable">>)
               ELSE Undefined]

\* The body of GET /documents: the documents d, d-1, ..., 1 the backend holds.
RECURSIVE ListedUpTo(_)
ListedUpTo(d) ==
    IF d = 0 THEN << >>
    ELSE <<Listed(d)>> \o ListedUpTo(d - 1)

\* A document with the given id is in the list.
IsListed(documents, docId) == \E i \in DOMAIN documents : documents[i].id = docId

\* An update that puts the document into the list when it is not there.
UpdateOrAddDocument(documents, docId, updates) ==
    IF \E i \in DOMAIN documents : documents[i].id = docId
    THEN [i \in DOMAIN documents |->
             IF documents[i].id = docId
             THEN [f \in DOMAIN documents[i] |->
                      IF f \in DOMAIN updates THEN updates[f] ELSE documents[i][f]]
             ELSE documents[i]]
    ELSE Append(documents,
                [id |-> docId, user_id |-> << >>, name |-> "",
                 status |-> updates.status, error |-> Undefined])

\* { ...doc, ...updates } for every document whose id is docId
UpdateDocumentStatus(documents, docId, updates) ==
    [i \in DOMAIN documents |->
        IF documents[i].id = docId
        THEN [f \in DOMAIN documents[i] |->
                 IF f \in DOMAIN updates THEN updates[f] ELSE documents[i][f]]
        ELSE documents[i]]

TimeoutUpdates == [status |-> "failed", error |-> Some(<<"Processing timeout">>)]

\* A catch block that records the error and keeps the status.
CheckFailedKeepingStatus == [error |-> Some(<<"Status check failed">>)]

CheckFailedUpdates == [status |-> "failed", error |-> Some(<<"Status check failed">>)]

\* A budget test that lets one more request through.
BudgetSpentLate(attempts) == attempts > maxAttempts

\* attempts >= maxAttempts
BudgetSpent(attempts) == attempts >= maxAttempts

\* A poller that stops only on 'ready'.
KeepsPollingUnlessReady(document) == document.status # "ready"

\* document.status === 'processing'
KeepsPolling(document) == document.status = "processing"

\* One call of poll() up to its await, on the closure `frame` and the list
\* `documents`: the timeout, or the next request.
PollFrame(frame) ==
    IF BudgetSpent(frame.attempts)
    THEN [frame EXCEPT !.pc = "timeout"]
    ELSE [frame EXCEPT !.pc = "request", !.requests = @ + 1]

PollDocuments(frame, documents) ==
    IF BudgetSpent(frame.attempts)
    THEN UpdateDocumentStatus(documents, frame.docId, TimeoutUpdates)
    ELSE documents

\* documentApi.uploadDocument resolves: the document joins the head of the
\* list as 'processing' and pollDocumentStatus makes its first call of poll.
UploadResolves(name) ==
    LET d == Len(server) + 1
        newDocument == [id |-> d, user_id |-> << >>, name |-> name,
                        status |-> "processing", error |-> Undefined]
        frame == [docId |-> d, pc |-> "started", attempts |-> 0, requests |-> 0]
    IN /\ Len(server) < MaxDocs
       /\ server' = Append(server, [name |-> name, status |-> "processing"])
       /\ docs' = [docs EXCEPT !.documents =
              PollDocuments(frame, <<newDocument>> \o @)]
       /\ pollers' = Append(pollers, PollFrame(frame))
       /\ UNCHANGED <<loads, chatVars, authVars, limits, parser, form, page>>

\* documentApi.uploadDocument rejects: uploadDocument rethrows.
UploadFails(status) ==
    /\ Len(server) < MaxDocs
    /\ Interceptor(status)
    /\ UNCHANGED <<docVars, chatVars, sessionVars, lastResponse, limits, parser, form, page>>

\* The backend finishes processing a document.
BackendFinishes(d, outcome) ==
    /\ server[d].status = "processing"
    /\ server' = [server EXCEPT ![d].status = outcome]
    /\ UNCHANGED <<docs, pollers, loads, chatVars, authVars, limits, parser, form, page>>

\* documentApi.getDocumentStatus resolves in poll.
StatusResponds(p) ==
    LET frame == pollers[p]
        document == StatusBody(frame.docId)
    IN /\ frame.pc = "request"
       /\ docs' = [docs EXCEPT !.documents =
              UpdateDocumentStatus(docs.documents, frame.docId, document)]
       /\ pollers' = [pollers EXCEPT ![p] =
              IF KeepsPolling(document)
              THEN [frame EXCEPT !.attempts = @ + 1, !.pc = "timer"]
              ELSE [frame EXCEPT !.pc = "terminal"]]
       /\ UNCHANGED <<server, loads, chatVars, authVars, limits, parser, form, page>>

\* documentApi.getDocumentStatus rejects in poll: the catch block.
StatusFails(p, status) ==
    LET frame == pollers[p]
    IN /\ frame.pc = "request"
       /\ Interceptor(status)
       /\ docs' = [docs EXCEPT !.documents =
              UpdateDocumentStatus(docs.documents, frame.docId, CheckFailedUpdates)]
       /\ pollers' = [pollers EXCEPT ![p] = [frame EXCEPT !.pc = "error"]]
       /\ UNCHANGED <<server, loads, chatVars, sessionVars, lastResponse, limits, parser, form, page>>

\* The timer set by setTimeout(poll, 5000) fires.
TimerFires(p) ==
    /\ pollers[p].pc = "timer"
    /\ pollers' = [pollers EXCEPT ![p] = PollFrame(pollers[p])]
    /\ docs' = [docs EXCEPT !.documents = PollDocuments(pollers[p], @)]
    /\ UNCHANGED <<server, loads, chatVars, authVars, limits, parser, form, page>>

\* documentApi.getDocuments resolves: the list is replaced.
LoadResolves ==
    /\ loads > 0
    /\ docs' = [documents |-> ListedUpTo(Len(server)), loading |-> FALSE,
                error |-> Undefined]
    /\ loads' = loads - 1
    /\ UNCHANGED <<server, pollers, chatVars, authVars, limits, parser, form, page>>

\* documentApi.getDocuments resolves with a body the backend made before the
\* first upload reached it: the list is replaced by the empty list.
LoadResolvesEarly ==
    /\ loads > 0
    /\ Len(server) > 0
    /\ docs' = [documents |-> << >>, loading |-> FALSE, error |-> Undefined]
    /\ loads' = loads - 1
    /\ UNCHANGED <<server, pollers, chatVars, authVars, limits, parser, form, page>>

\* documentApi.getDocuments rejects.
LoadFails(status) ==
    /\ loads > 0
    /\ Interceptor(status)
    /\ docs' = [docs EXCEPT !.loading = FALSE,
                            !.error = Some(HandleApiError(Rejection(status)).detail)]
    /\ loads' = loads - 1
    /\ UNCHANGED <<server, pollers, chatVars, sessionVars, lastResponse, limits, parser, form, page>>

\* prev.documents.filter(doc => doc.id !== docId)
WithoutDocument(documents, docId) ==
    LET Kept(doc) == doc.id # docId
    IN SelectSeq(documents, Kept)

\* documentApi.deleteDocument resolves for a listed document, the one whose
\* delete control was confirmed: it leaves the list.  What the backend
\* answers to later status requests for it is not the client's to decide.
DeleteResolves(d) ==
    /\ IsListed(docs.documents, d)
    /\ docs' = [docs EXCEPT !.documents = WithoutDocument(@, d)]
    /\ UNCHANGED <<server, pollers, loads, chatVars, authVars, limits, parser, form, page>>

\* documentApi.deleteDocument rejects: deleteDocument rethrows and the page
\* logs the error.
DeleteFails(d, status) ==
    /\ IsListed(docs.documents, d)
    /\ Interceptor(status)
    /\ UNCHANGED <<docVars, chatVars, sessionVars, lastResponse, limits, parser, form, page>>

\* useState's initial value.
InitDocsIdle ==
    /\ docs = [documents |-> << >>, loading |-> FALSE, error |-> Undefined]
    /\ server = << >>
    /\ pollers = << >>
    /\ loads = 0

NextDocs ==
    \/ \E name \in FileNames : UploadResolves(name)
    \/ \E status \in FailureStatuses : UploadFails(status)
    \/ \E d \in DOMAIN server : \E outcome \in {"ready", "failed"} :
           BackendFinishes(d, outcome)
    \/ \E p \in DOMAIN pollers : StatusResponds(p)
    \/ \E p \in DOMAIN pollers : \E status \in FailureStatuses : StatusFails(p, status)
    \/ \E p \in DOMAIN pollers : TimerFires(p)
    \/ LoadResolves
    \/ \E status \in FailureStatuses : LoadFails(status)

\* Uploads, their pollers and deletions, on a page whose list has loaded.
NextDelete ==
    \/ \E name \in FileNames : UploadResolves(name)
    \/ \E d \in DOMAIN server : \E outcome \in {"ready", "failed"} :
           BackendFinishes(d, outcome)
    \/ \E p \in DOMAIN pollers : StatusResponds(p)
    \/ \E p \in DOMAIN pollers : \E status \in FailureStatuses : StatusFails(p, status)
    \/ \E p \in DOMAIN pollers : TimerFires(p)
    \/ \E d \in DOMAIN server : DeleteResolves(d)
    \/ \E d \in DOMAIN server : \E status \in FailureStatuses : DeleteFails(d, status)

\* The same, with a list response that may be older than the uploads.
NextReload == NextDocs \/ LoadResolvesEarly

---------------------------------------------------------------------------
(* useAuth.ts *)

\* The accounts the backend answers a login or a registration with.
Accounts == {[token |-> "t1", user |-> "u1"], [token |-> "t2", user |-> "u2"]}

\* Axios calls made with the session that no hook of the session handles.
PlainCalls == {"me", "health"}

\* Axios calls of the session in flight at a time.
MaxInFlight == 1

\* Questions asked along the session's calls.
MaxAsks == 1

\* JSON.stringify of a user, and JSON.parse of a stored text: Undefined
\* stands for the SyntaxError it throws.
Stringify(user) == <<"{", user, "}">>
JsonParse(text) ==
    IF Len(text) = 3 /\ text[1] = "{" /\ text[3] = "}" THEN Some(text[2]) ELSE Undefined

SignedOut == [user |-> Undefined, token |-> Undefined, loading |-> FALSE,
              error |-> Undefined]

\* The mount effect of AuthProvider.
InitAuth ==
    /\ ~mounted
    /\ mounted' = TRUE
    /\ IF savedToken # Undefined /\ savedUser # Undefined
       THEN IF JsonParse(savedUser[1]) # Undefined
            THEN /\ SetAuthToken(savedToken)
                 /\ auth' = [user |-> JsonParse(savedUser[1]), token |-> savedToken,
                             loading |-> FALSE, error |-> Undefined]
                 /\ UNCHANGED savedUser
            ELSE /\ SetAuthToken(Undefined)
                 /\ savedUser' = Undefined
                 /\ auth' = SignedOut
       ELSE /\ auth' = [auth EXCEPT !.loading = FALSE]
            /\ UNCHANGED <<authToken, defaultAuth, savedToken, savedUser>>
    /\ UNCHANGED <<location, pending, lastResponse, chatVars, docVars, limits, parser, form, page>>

\* login and register up to their await.
Authenticate(kind) ==
    /\ mounted
    /\ Len(pending) < MaxInFlight
    /\ auth' = [auth EXCEPT !.loading = TRUE, !.error = Undefined]
    /\ pending' = Append(pending, kind)
    /\ UNCHANGED <<tokenVars, savedUser, mounted, lastResponse, chatVars, docVars, limits, parser, form, page>>

\* authApi.login / authApi.register resolves.
AuthenticateResolves(kind, i, account) ==
    /\ pending[i] = kind
    /\ pending' = RemoveAt(pending, i)
    /\ SetAuthToken(Some(account.token))
    /\ savedUser' = Some(Stringify(account.user))
    /\ auth' = [user |-> Some(account.user), token |-> Some(account.token),
                loading |-> FALSE, error |-> Undefined]
    /\ lastResponse' = Outcome(kind, Some(200))
    /\ UNCHANGED <<location, mounted, chatVars, docVars, limits, parser, form, page>>

\* authApi.login / authApi.register rejects: the interceptor, then the catch
\* block.
AuthenticateFails(kind, i, status) ==
    /\ pending[i] = kind
    /\ pending' = RemoveAt(pending, i)
    /\ Interceptor(status)
    /\ auth' = [auth EXCEPT !.loading = FALSE,
                            !.error = Some(HandleApiError(Rejection(status)).detail)]
    /\ lastResponse' = Outcome(kind, Some(status))
    /\ UNCHANGED <<savedUser, mounted, chatVars, docVars, limits, parser, form, page>>

Login == Authenticate("login")
LoginResolves(i, account) == AuthenticateResolves("login", i, account)
LoginFails(i, status) == AuthenticateFails("login", i, status)

Register == Authenticate("register")
RegisterResolves(i, account) == AuthenticateResolves("register", i, account)
RegisterFails(i, status) == AuthenticateFails("register", i, status)

\* A logout that leaves the cached user in storage.
LogoutKeepingUser ==
    /\ mounted
    /\ SetAuthToken(Undefined)
    /\ UNCHANGED savedUser
    /\ auth' = SignedOut
    /\ UNCHANGED <<location, mounted, pending, lastResponse, chatVars, docVars, limits, parser, form, page>>

Logout ==
    /\ mounted
    /\ SetAuthToken(Undefined)
    /\ savedUser' = Undefined
    /\ auth' = SignedOut
    /\ UNCHANGED <<location, mounted, pending, lastResponse, chatVars, docVars, limits, parser, form, page>>

\* authApi.getCurrentUser / healthApi.checkHealth is called.
Request(kind) ==
    /\ Len(pending) < MaxInFlight
    /\ pending' = Append(pending, kind)
    /\ UNCHANGED <<tokenVars, savedUser, auth, mounted, lastResponse, chatVars,
                   docVars, limits, parser, form, page>>

RequestResolves(i) ==
    /\ pending[i] \in PlainCalls
    /\ pending' = RemoveAt(pending, i)
    /\ lastResponse' = Outcome(pending[i], Some(200))
    /\ UNCHANGED <<tokenVars, savedUser, auth, mounted, chatVars, docVars, limits, parser, form, page>>

RequestFails(i, status) ==
    /\ pending[i] \in PlainCalls
    /\ pending' = RemoveAt(pending, i)
    /\ Interceptor(status)
    /\ lastResponse' = Outcome(pending[i], Some(status))
    /\ UNCHANGED <<savedUser, auth, mounted, chatVars, docVars, limits, parser, form, page>>

\* A session restored by the mount effect from the stored account "t1"/"u1".
InitSignedIn ==
    /\ authToken = Some("t1")
    /\ defaultAuth = Some(Bearer(Some("t1")))
    /\ savedToken = Some("t1")
    /\ savedUser = Some(Stringify("u1"))
    /\ auth = [user |-> Some("u1"), token |-> Some("t1"),
               loading |-> FALSE, error |-> Undefined]
    /\ mounted = TRUE
    /\ location = "/"
    /\ pending = << >>
    /\ lastResponse = Undefined

\* The session flow and the axios calls made with the session.
NextSession ==
    \/ InitAuth
    \/ Login
    \/ \E i \in DOMAIN pending : \E account \in Accounts : LoginResolves(i, account)
    \/ \E i \in DOMAIN pending : \E status \in FailureStatuses : LoginFails(i, status)
    \/ Register
    \/ \E i \in DOMAIN pending : \E account \in Accounts : RegisterResolves(i, account)
    \/ \E i \in DOMAIN pending : \E status \in FailureStatuses : RegisterFails(i, status)
    \/ Logout
    \/ \E kind \in PlainCalls : Request(kind)
    \/ \E i \in DOMAIN pending : RequestResolves(i)
    \/ \E i \in DOMAIN pending : \E status \in FailureStatuses : RequestFails(i, status)

\* Every call the client makes with the session: those above and /ask, on
\* the documents selected.
NextCalls ==
    \/ NextSession
    \/ \E docIds \in SUBSET DocIds : SetSelectedDocs(docIds)
    \/ ClearError
    \/ \E question \in Questions : AskQuestion(question)
    \/ \E e \in DOMAIN calls : AskResolves(e)
    \/ \E e \in DOMAIN calls : \E failure \in AskFailures : AskFails(e, failure)
    \/ \E e \in DOMAIN calls : StreamEnds(e)

---------------------------------------------------------------------------
(* api.ts: parseStreamingResponse *)

\* A response body is a text of at most MaxLines lines, read in at most
\* MaxReads chunks.
MaxLines == 3
MaxReads == 2

\* 'data: '
DataPrefix == <<"data:", " ">>

\* The lines a body is made of: two events, a data line whose payload is cut
\* short, a line that is not a data line.
StreamLines ==
    {DataPrefix \o <<"{", "a", "}">>,
     DataPrefix \o <<"{", "b", "}">>,
     DataPrefix \o <<"{", "a">>,
     <<":", "x">>}

\* The bodies of at most n lines, each ended by a newline.
RECURSIVE TerminatedBodies(_)
TerminatedBodies(n) ==
    IF n = 0 THEN {<< >>}
    ELSE LET shorter == TerminatedBodies(n - 1)
         IN shorter \cup {line \o <<"\n">> \o rest : line \in StreamLines, rest \in shorter}

\* The bodies: terminated lines, possibly followed by a line the server has
\* not ended.
Bodies ==
    {body \o last : body \in TerminatedBodies(MaxLines),
                    last \in {<< >>, DataPrefix \o <<"{", "a", "}">>}}

\* The ways reader.read() may hand out a text in at most `reads` non-empty
\* chunks.
RECURSIVE Chunkings(_, _)
Chunkings(text, reads) ==
    IF text = << >> THEN {<< >>}
    ELSE {<<text>>} \cup
         IF reads > 1
         THEN UNION {{<<SubSeq(text, 1, i)>> \o rest :
                         rest \in Chunkings(SubSeq(text, i + 1, Len(text)), reads - 1)} :
                     i \in 1..(Len(text) - 1)}
         ELSE {}

\* String.prototype.startsWith and slice
StartsWith(text, prefix) ==
    Len(text) >= Len(prefix) /\ SubSeq(text, 1, Len(prefix)) = prefix
Slice(text, start) == SubSeq(text, start + 1, Len(text))

\* text.split('\n'): the segments between the newlines, one more than there
\* are newlines.
RECURSIVE Split(_)
Split(text) ==
    IF \E i \in DOMAIN text : text[i] = "\n"
    THEN LET i == CHOOSE k \in DOMAIN text :
                      text[k] = "\n" /\ \A j \in 1..(k - 1) : text[j] # "\n"
         IN <<SubSeq(text, 1, i - 1)>> \o Split(SubSeq(text, i + 1, Len(text)))
    ELSE <<text>>

\* No stream is being read.
InitNoStream ==
    parser = [body |-> << >>, chunks |-> << >>, buffer |-> << >>,
              lines |-> << >>, yields |-> << >>, pc |-> "idle"]

\* The generator has been started on a stream that will hand out `chunks`.
InitStream ==
    \E body \in Bodies : \E chunks \in Chunkings(body, MaxReads) :
        parser = [body |-> body, chunks |-> chunks, buffer |-> << >>,
                  lines |-> << >>, yields |-> << >>, pc |-> "read"]

\* A read that splits the chunk alone, forgetting the rest of the last read.
ReaderReadsChunkAlone ==
    /\ parser.pc = "read"
    /\ parser.chunks # << >>
    /\ LET segments == Split(Head(parser.chunks))
           n == Len(segments)
       IN parser' = [parser EXCEPT !.chunks = Tail(@),
                                   !.buffer = segments[n],
                                   !.lines = SubSeq(segments, 1, n - 1),
                                   !.pc = IF n > 1 THEN "lines" ELSE "read"]
    /\ UNCHANGED <<limits, chatVars, docVars, authVars, form, page>>

\* reader.read() resolves with a chunk: lines 157-159.
ReaderReads ==
    /\ parser.pc = "read"
    /\ parser.chunks # << >>
    /\ LET segments == Split(parser.buffer \o Head(parser.chunks))
           n == Len(segments)
       IN parser' = [parser EXCEPT !.chunks = Tail(@),
                                   !.buffer = segments[n],
                                   !.lines = SubSeq(segments, 1, n - 1),
                                   !.pc = IF n > 1 THEN "lines" ELSE "read"]
    /\ UNCHANGED <<limits, chatVars, docVars, authVars, form, page>>

\* A body of the for loop that lets the SyntaxError of JSON.parse escape.
VisitLineOrThrow(p) ==
    LET line == Head(p.lines)
        rest == Tail(p.lines)
        parsed == IF StartsWith(line, DataPrefix)
                  THEN JsonParse(Slice(line, Len(DataPrefix))) ELSE Undefined
    IN IF StartsWith(line, DataPrefix) /\ parsed = Undefined
       THEN [p EXCEPT !.lines = << >>, !.pc = "thrown"]
       ELSE [p EXCEPT !.lines = rest,
                      !.yields = IF parsed # Undefined THEN Append(@, parsed[1]) ELSE @,
                      !.pc = IF rest = << >> THEN "read" ELSE "lines"]

\* The body of the for loop on the next line: lines 161-170.
VisitLine(p) ==
    LET line == Head(p.lines)
        rest == Tail(p.lines)
        parsed == IF StartsWith(line, DataPrefix)
                  THEN JsonParse(Slice(line, Len(DataPrefix))) ELSE Undefined
    IN [p EXCEPT !.lines = rest,
                 !.yields = IF parsed # Undefined THEN Append(@, parsed[1]) ELSE @,
                 !.pc = IF rest = << >> THEN "read" ELSE "lines"]

NextLine ==
    /\ parser.pc = "lines"
    /\ parser' = VisitLine(parser)
    /\ UNCHANGED <<limits, chatVars, docVars, authVars, form, page>>

\* reader.read() resolves with done: the loop ends, the lock is released.
ReaderDone ==
    /\ parser.pc = "read"
    /\ parser.chunks = << >>
    /\ parser' = [parser EXCEPT !.pc = "done"]
    /\ UNCHANGED <<limits, chatVars, docVars, authVars, form, page>>

NextStream == ReaderReads \/ NextLine \/ ReaderDone

---------------------------------------------------------------------------
(* register.tsx *)

\* The shortest password validateForm accepts.
MinPasswordLength == 8

\* A text of n times the symbol c.
Repeat(c, n) == [i \in 1..n |-> c]

\* What the fields may hold when the form is submitted.
Emails ==
    {<< >>, <<"a", "@", "b", ".", "c">>, <<"a", "@", "b">>,
     <<"a", " ", "@", "b", ".", "c">>}
Passwords ==
    {<< >>, Repeat("p", MinPasswordLength - 1), Repeat("p", MinPasswordLength)}
Confirmations == Passwords \cup {Repeat("q", MinPasswordLength)}

\* /^[^\s@]+@[^\s@]+\.[^\s@]+$/.test(email): one "@" with text before it, no
\* blank, and after the "@" a "." with text on both sides.
EmailRegexTest(email) ==
    \E i \in DOMAIN email :
        /\ email[i] = "@"
        /\ i > 1
        /\ \A k \in DOMAIN email : k # i => email[k] \notin {" ", "@"}
        /\ \E j \in DOMAIN email : j > i + 1 /\ j < Len(email) /\ email[j] = "."

\* A validateForm that accepts a password of any length.
ValidateFormAnyLength(email, password, confirmPassword) ==
    IF email = << >> \/ password = << >> \/ confirmPassword = << >>
    THEN <<"Please fill in all fields">>
    ELSE IF password # confirmPassword
    THEN <<"Passwords do not match">>
    ELSE IF ~EmailRegexTest(email)
    THEN <<"Please enter a valid email address">>
    ELSE << >>

\* validateForm: the validation error it sets, empty when it returns true.
ValidateForm(email, password, confirmPassword) ==
    IF email = << >> \/ password = << >> \/ confirmPassword = << >>
    THEN <<"Please fill in all fields">>
    ELSE IF Len(password) < MinPasswordLength
    THEN <<"Password must be at least 8 characters long">>
    ELSE IF password # confirmPassword
    THEN <<"Passwords do not match">>
    ELSE IF ~EmailRegexTest(email)
    THEN <<"Please enter a valid email address">>
    ELSE << >>

\* handleSubmit of the form, which the page renders once the auth state is
\* not loading: the validation error and the hook's error are cleared, then
\* either validateForm sets its error, or register runs up to its await.
HandleSubmit(email, password, confirmPassword) ==
    LET problem == ValidateForm(email, password, confirmPassword)
    IN /\ mounted
       /\ ~auth.loading
       /\ Len(pending) < MaxInFlight
       /\ form' = [validationError |-> problem]
       /\ IF problem # << >>
          THEN /\ auth' = [auth EXCEPT !.error = Undefined]
               /\ UNCHANGED pending
          ELSE /\ auth' = [auth EXCEPT !.loading = TRUE, !.error = Undefined]
               /\ pending' = Append(pending, "register")
       /\ UNCHANGED <<tokenVars, savedUser, mounted, lastResponse, chatVars, docVars,
                      limits, parser, page>>

\* useState('') of validationError.
InitForm == form = [validationError |-> << >>]

\* The registration page: its form is the only caller of register.
NextRegister ==
    \/ InitAuth
    \/ \E email \in Emails : \E password \in Passwords :
           \E confirmPassword \in Confirmations :
               HandleSubmit(email, password, confirmPassword)
    \/ \E i \in DOMAIN pending : \E account \in Accounts : RegisterResolves(i, account)
    \/ \E i \in DOMAIN pending : \E status \in FailureStatuses : RegisterFails(i, status)
    \/ Logout

---------------------------------------------------------------------------
(* The chat page: the question form *)

\* Submit events are explored with MaxSubmits calls, whose streams yield no
\* chunk.
MaxSubmits == 2

\* What a render of ChatPage computes and its handlers close over.
Rendered(state, inputValue) ==
    [inputValue |-> inputValue, isWaitingForResponse |-> IsWaitingForResponse(state)]

\* useState('') of inputValue, and the first render.
InitInput ==
    page = [inputValue |-> << >>,
            rendered |-> [inputValue |-> << >>, isWaitingForResponse |-> FALSE]]

\* React renders the page again after a change of state.
Render ==
    /\ page.rendered # Rendered(chat, page.inputValue)
    /\ page' = [page EXCEPT !.rendered = Rendered(chat, page.inputValue)]
    /\ UNCHANGED <<limits, chatVars, docVars, authVars, parser, form>>

\* onChange of the textarea, which the last render has not disabled.
OnChange(text) ==
    /\ ~page.rendered.isWaitingForResponse
    /\ text # page.inputValue
    /\ page' = [page EXCEPT !.inputValue = text]
    /\ UNCHANGED <<limits, chatVars, docVars, authVars, parser, form>>

\* handleSubmit of the chat page, as the last render defined it: the guard
\* on the rendered input and waiting flag, setInputValue(''), clearError()
\* and askQuestion up to its await.
ChatHandleSubmit ==
    /\ ~(Trim(page.rendered.inputValue) = << >> \/ page.rendered.isWaitingForResponse)
    /\ page' = [page EXCEPT !.inputValue = << >>]
    /\ \E d1, d2 \in ClockSteps :
           Asking(chat.messages, Trim(page.rendered.inputValue), Undefined, d1, d2)
    /\ UNCHANGED <<docVars, authVars, limits, parser, form>>

\* Questions typed and submitted, their requests answered or failed, their
\* streams ended.
NextSubmit ==
    \/ Render
    \/ \E text \in Questions : OnChange(text)
    \/ ChatHandleSubmit
    \/ \E e \in DOMAIN calls : AskResolves(e)
    \/ \E e \in DOMAIN calls : \E failure \in AskFailures : AskFails(e, failure)
    \/ \E e \in DOMAIN calls : ReadFails(e)
    \/ \E e \in DOMAIN calls : StreamEnds(e)

---------------------------------------------------------------------------
(* The pages explored *)

\* The chat page of a signed-in session.
InitChatPage ==
    /\ limits = [calls |-> MaxCalls, events |-> MaxEvents]
    /\ InitChat /\ InitDocsIdle /\ InitSignedIn
    /\ InitNoStream /\ InitForm /\ InitInput

InitRetryPage ==
    /\ limits = [calls |-> MaxTurns, events |-> MaxTurnEvents]
    /\ InitChat /\ InitDocsIdle /\ InitSignedIn
    /\ InitNoStream /\ InitForm /\ InitInput

\* The chat page with its question form.
InitSubmitPage ==
    /\ limits = [calls |-> MaxSubmits, events |-> 0]
    /\ InitChat /\ InitDocsIdle /\ InitSignedIn
    /\ InitNoStream /\ InitForm /\ InitInput

InitAskPage ==
    /\ limits = [calls |-> MaxTurns, events |-> 0]
    /\ InitChat /\ InitDocsIdle /\ InitSignedIn
    /\ InitNoStream /\ InitForm /\ InitInput

\* The documents page of a signed-in session: its mount effect has called
\* loadDocuments, which has set the loading flag and awaits the list.
InitDocsPage ==
    /\ limits = [calls |-> 0, events |-> 0]
    /\ InitChat /\ InitSignedIn /\ InitNoStream /\ InitForm /\ InitInput
    /\ docs = [documents |-> << >>, loading |-> TRUE, error |-> Undefined]
    /\ server = << >>
    /\ pollers = << >>
    /\ loads = 1

\* A page just loaded, before the mount effect: api.ts has initialised the
\* token store from what storage holds, nothing or a stored session.
InitSession ==
    /\ \E stored \in {Undefined, Some([token |-> "t1", user |-> "u1"])} :
           /\ savedToken = (IF stored = Undefined THEN Undefined
                            ELSE Some(stored[1].token))
           /\ savedUser = (IF stored = Undefined THEN Undefined
                           ELSE Some(Stringify(stored[1].user)))
    /\ authToken = savedToken
    /\ defaultAuth = (IF savedToken # Undefined THEN Some(Bearer(savedToken))
                      ELSE Undefined)
    /\ auth = [user |-> Undefined, token |-> Undefined, loading |-> TRUE,
               error |-> Undefined]
    /\ mounted = FALSE
    /\ location = "/"
    /\ pending = << >>
    /\ lastResponse = Undefined

\* The user records storage may hold at start-up: none, the text login
\* wrote, or a text JSON.parse throws on.
StoredUsers == {Undefined, Some(Stringify("u1")), Some(<<"{">>)}

\* A page just loaded with any combination of the two storage entries:
\* api.ts has initialised the token store from 'auth_token' alone.
InitStartup ==
    /\ savedToken \in {Undefined, Some("t1")}
    /\ savedUser \in StoredUsers
    /\ authToken = savedToken
    /\ defaultAuth = (IF savedToken # Undefined THEN Some(Bearer(savedToken))
                      ELSE Undefined)
    /\ auth = [user |-> Undefined, token |-> Undefined, loading |-> TRUE,
               error |-> Undefined]
    /\ mounted = FALSE
    /\ location = "/"
    /\ pending = << >>
    /\ lastResponse = Undefined

InitStartupPage ==
    /\ limits = [calls |-> 0, events |-> 0]
    /\ InitChat /\ InitDocsIdle /\ InitStartup
    /\ InitNoStream /\ InitForm /\ InitInput

InitSessionPage ==
    /\ limits = [calls |-> 0, events |-> 0]
    /\ InitChat /\ InitDocsIdle /\ InitSession
    /\ InitNoStream /\ InitForm /\ InitInput

InitCallsPage ==
    /\ limits = [calls |-> MaxAsks, events |-> 0]
    /\ InitChat /\ InitDocsIdle /\ InitSession
    /\ InitNoStream /\ InitForm /\ InitInput

\* The chat page while the body of a response is read.
InitStreamPage ==
    /\ limits = [calls |-> 0, events |-> 0]
    /\ InitChat /\ InitDocsIdle /\ InitSignedIn
    /\ InitStream /\ InitForm /\ InitInput

\* The registration page just loaded.
InitRegisterPage ==
    /\ limits = [calls |-> 0, events |-> 0]
    /\ InitChat /\ InitDocsIdle /\ InitSession
    /\ InitNoStream /\ InitForm /\ InitInput

InitRetriesPage ==
    /\ limits = [calls |-> MaxRetryCalls, events |-> 0]
    /\ InitChat /\ InitDocsIdle /\ InitSignedIn
    /\ InitNoStream /\ InitForm /\ InitInput

\* The documents page with the list request of its mount effect in flight.
InitReloadPage ==
    /\ limits = [calls |-> 0, events |-> 0]
    /\ InitChat /\ InitSignedIn /\ InitNoStream /\ InitForm /\ InitInput
    /\ docs = [documents |-> << >>, loading |-> TRUE, error |-> Undefined]
    /\ server = << >>
    /\ pollers = << >>
    /\ loads = 1

\* The documents page after its list has loaded (empty).
InitDeletePage ==
    /\ limits = [calls |-> 0, events |-> 0]
    /\ InitChat /\ InitDocsIdle /\ InitSignedIn
    /\ InitNoStream /\ InitForm /\ InitInput

SpecChat == InitChatPage /\ [][NextChat]_vars

SpecDelete == InitDeletePage /\ [][NextDelete]_vars

SpecReload == InitReloadPage /\ [][NextReload]_vars

SpecRetries == InitRetriesPage /\ [][NextRetries]_vars

SpecRegister == InitRegisterPage /\ [][NextRegister]_vars

SpecStream == InitStreamPage /\ [][NextStream]_vars

SpecRetry == InitRetryPage /\ [][NextRetry]_vars

SpecAsk == InitAskPage /\ [][NextAsk]_vars

SpecDocs == InitDocsPage /\ [][NextDocs]_vars

SpecAuth == InitSessionPage /\ [][NextSession]_vars

\* The question form of the chat page.
SpecSubmit == InitSubmitPage /\ [][NextSubmit]_vars

\* The session flow from every combination of storage entries.
SpecStartup == InitStartupPage /\ [][NextSession]_vars

SpecCalls == InitCallsPage /\ [][NextCalls]_vars

---------------------------------------------------------------------------
(* Properties of the streaming chat reducer *)

HasMessage(messages, key) == \E i \in DOMAIN messages : messages[i].key = key

MessageOf(messages, key) ==
    messages[CHOOSE i \in DOMAIN messages : messages[i].key = key]

IsToken(chunk) == chunk.type = "token" /\ chunk.content # << >>
IsComplete(chunk) == chunk.type = "complete" /\ chunk.final_response # Undefined

TokensOnly(delivered) == \A i \in DOMAIN delivered : IsToken(delivered[i])

\* t1 + ... + tn of the token events among `delivered`, in arrival order
RECURSIVE TokenText(_)
TokenText(delivered) ==
    IF delivered = << >> THEN << >>
    ELSE (IF Head(delivered).type = "token" THEN Head(delivered).content ELSE << >>)
         \o TokenText(Tail(delivered))

\* Call e stays in its stream loop and takes one more chunk in this step.
Applies(e) ==
    /\ calls[e].pc = "stream"
    /\ calls'[e].pc = "stream"
    /\ Len(calls'[e].delivered) = Len(calls[e].delivered) + 1

LastChunk(e) == calls'[e].delivered[Len(calls'[e].delivered)]

\* C1: in an exchange whose stream has delivered only token events with
\* content, the placeholder's content after each token is the concatenation
\* of the tokens delivered so far, in arrival order, and the end of the stream
\* leaves that text in place.
C1_TokensConcatenate ==
    [][\A e \in DOMAIN calls :
          /\ (/\ Applies(e)
              /\ TokensOnly(calls'[e].delivered)
              /\ HasMessage(chat'.messages, AssistantKey(e)))
             => MessageOf(chat'.messages, AssistantKey(e)).content
                    = TokenText(calls'[e].delivered)
          /\ (/\ calls[e].pc = "stream"
              /\ calls'[e].pc = "done"
              /\ TokensOnly(calls[e].delivered))
             => chat'.messages = chat.messages]_vars

C1_Witness ==
    \E e \in DOMAIN calls :
        /\ calls[e].pc = "stream"
        /\ Len(calls[e].delivered) = 2
        /\ TokensOnly(calls[e].delivered)
        /\ calls[e].delivered[1].content # calls[e].delivered[2].content
        /\ HasMessage(chat.messages, AssistantKey(e))
        /\ MessageOf(chat.messages, AssistantKey(e)).content
               = calls[e].delivered[1].content \o calls[e].delivered[2].content

\* C2 as stated: once a complete event with its payload has been delivered in
\* an exchange, the placeholder shows the payload's answer and citations for
\* the rest of the exchange.
C2_CompleteStays ==
    \A e \in DOMAIN calls :
        (/\ calls[e].pc = "stream"
         /\ \E i \in DOMAIN calls[e].delivered : IsComplete(calls[e].delivered[i])
         /\ HasMessage(chat.messages, AssistantKey(e)))
        => /\ MessageOf(chat.messages, AssistantKey(e)).content = FinalResponse.answer
           /\ MessageOf(chat.messages, AssistantKey(e)).citations
                  = Some(FinalResponse.citations)

\* C2 amended: the step that applies a complete event with its payload sets
\* the placeholder's content and citations to the payload's, whatever was
\* accumulated before; a later citation event, token event without content or
\* complete event without payload leaves every message as it is.
C2_CompleteSupersedes ==
    [][\A e \in DOMAIN calls :
          /\ (/\ Applies(e)
              /\ IsComplete(LastChunk(e))
              /\ HasMessage(chat'.messages, AssistantKey(e)))
             => /\ MessageOf(chat'.messages, AssistantKey(e)).content
                       = LastChunk(e).final_response[1].answer
                /\ MessageOf(chat'.messages, AssistantKey(e)).citations
                       = Some(LastChunk(e).final_response[1].citations)
          /\ (/\ Applies(e)
              /\ ~IsToken(LastChunk(e))
              /\ ~IsComplete(LastChunk(e)))
             => chat'.messages = chat.messages]_vars

C2_Witness ==
    \E e \in DOMAIN calls :
        /\ calls[e].pc = "stream"
        /\ Len(calls[e].delivered) = 2
        /\ IsToken(calls[e].delivered[1])
        /\ IsComplete(calls[e].delivered[2])
        /\ HasMessage(chat.messages, AssistantKey(e))
        /\ MessageOf(chat.messages, AssistantKey(e)).content = FinalResponse.answer
        /\ MessageOf(chat.messages, AssistantKey(e)).citations
               = Some(FinalResponse.citations)

\* C3 as stated: the placeholder of a running exchange is loading exactly
\* until the first token, complete or error event of its stream.
C3_LoadingUntilFirstEvent ==
    \A e \in DOMAIN calls :
        (calls[e].pc = "stream" /\ HasMessage(chat.messages, AssistantKey(e)))
        => (Truthy(MessageOf(chat.messages, AssistantKey(e)).loading)
            <=> ~\E i \in DOMAIN calls[e].delivered :
                    calls[e].delivered[i].type \in {"token", "complete", "error"})

C22_FinishedCallStopsWaiting ==
    [][\A e \in DOMAIN calls :
          (calls[e].pc \in {"fetch", "stream"} /\ calls'[e].pc \in {"done", "failed"})
          => /\ HasMessage(chat'.messages, AssistantKey(e))
                => ~Truthy(MessageOf(chat'.messages, AssistantKey(e)).loading)
             /\ (\A o \in DOMAIN calls' : calls'[o].pc \in {"done", "failed"})
                => ~IsWaitingForResponse(chat')]_vars

---------------------------------------------------------------------------
(* Properties of the message list *)

\* C23 as stated: the messages of the list have pairwise distinct ids.
C23_IdsAreDistinct ==
    \A i, j \in DOMAIN chat.messages :
        i # j => chat.messages[i].id # chat.messages[j].id

\* C24 as stated: a listed user message keeps its content and loading flag,
\* and a step of call e (a token, complete or error update, a failure, the
\* end of its stream) leaves every listed message but e's placeholder as it
\* was.
C24_UpdatesTouchPlaceholderOnly ==
    [][\A i \in DOMAIN chat.messages :
          LET message == chat.messages[i]
          IN HasMessage(chat'.messages, message.key)
             => /\ message.role = "user"
                   => /\ MessageOf(chat'.messages, message.key).content = message.content
                      /\ MessageOf(chat'.messages, message.key).loading = message.loading
                /\ \A e \in DOMAIN calls :
                      (calls'[e] # calls[e] /\ message.key # AssistantKey(e))
                      => MessageOf(chat'.messages, message.key) = message]_vars

---------------------------------------------------------------------------
(* Properties of retry *)

\* C4 as stated: a retryQuestion(id) that starts a new exchange removes the
\* first assistant message after the user message named by id and nothing
\* else, then appends a user message with the same text and a placeholder.
C4_RetryReplacesOneAnswer ==
    [][(Len(calls') = Len(calls) + 1 /\ calls'[Len(calls')].retried # Undefined)
       => LET e == Len(calls')
              at == IndexOfId(chat.messages, calls'[e].retried[1])
              answer == AssistantIndexAfter(chat.messages, at)
              kept == RemoveAt(chat.messages, answer)
              after == chat'.messages
          IN /\ answer # 0
             /\ Len(after) = Len(kept) + 2
             /\ SubSeq(after, 1, Len(kept)) = kept
             /\ after[Len(after) - 1].role = "user"
             /\ after[Len(after) - 1].content = chat.messages[at].content
             /\ after[Len(after)].role = "assistant"
             /\ after[Len(after)].content = << >>
             /\ Truthy(after[Len(after)].loading)]_vars

\* C19 as stated: the Retry control shown on a finished assistant message
\* re-asks the question that message answered: the handler passes the guard
\* of retryQuestion, the assistant message it removes is that message, and
\* the text it asks again is the text of the question the message answered.
C19_RetryControlReasks ==
    \A i \in DOMAIN chat.messages :
        RetryShown(chat.messages[i])
        => LET at == IndexOfId(chat.messages, chat.messages[i].id)
           IN /\ at # 0
              /\ chat.messages[at].role = "user"
              /\ AssistantIndexAfter(chat.messages, at) = i
              /\ chat.messages[at].key + 1 = chat.messages[i].key

\* C25 as stated, for lists whose ids are pairwise distinct: an assistant
\* message that a retryQuestion(id) step removes is the reply to the user
\* message named by id, that is, the placeholder created together with it.
C25_RetryRemovesOwnReplyOnly ==
    [][(/\ Len(calls') = Len(calls) + 1
        /\ calls'[Len(calls')].retried # Undefined
        /\ C23_IdsAreDistinct)
       => LET at == IndexOfId(chat.messages, calls'[Len(calls')].retried[1])
          IN \A i \in DOMAIN chat.messages :
                 (/\ chat.messages[i].role = "assistant"
                  /\ ~HasMessage(chat'.messages, chat.messages[i].key))
                 => chat.messages[i].key = chat.messages[at].key + 1]_vars

---------------------------------------------------------------------------
(* Properties of the document status poller *)

\* Every listed document with the given id satisfies: status and error are
\* the given ones.
ListedAs(documents, docId, status, error) ==
    \A i \in DOMAIN documents :
        documents[i].id = docId
        => documents[i].status = status /\ documents[i].error = error

\* C5: a poller issues at most maxAttempts status requests; once that many
\* responses have reported 'processing', the next call of poll issues no
\* request and sets the document to 'failed' with error 'Processing timeout';
\* after that the poller issues no request.
C5_PollingIsBounded ==
    [][/\ \A p \in DOMAIN pollers' : pollers'[p].requests <= maxAttempts
       /\ \A p \in DOMAIN pollers :
             /\ (/\ pollers[p].pc = "timer"
                 /\ pollers[p].attempts >= maxAttempts
                 /\ pollers'[p] # pollers[p])
                => /\ pollers'[p].pc = "timeout"
                   /\ pollers'[p].requests = pollers[p].requests
                   /\ ListedAs(docs'.documents, pollers[p].docId, "failed",
                               Some(<<"Processing timeout">>))
             /\ pollers[p].pc = "timeout" => pollers'[p] = pollers[p]]_vars

C5_Witness ==
    \E p \in DOMAIN pollers :
        /\ pollers[p].pc = "timeout"
        /\ pollers[p].requests = maxAttempts
        /\ server[pollers[p].docId].status = "processing"
        /\ IsListed(docs.documents, pollers[p].docId)
        /\ ListedAs(docs.documents, pollers[p].docId, "failed",
                    Some(<<"Processing timeout">>))

\* C6: the step in which a status request of a poller fails sets the polled
\* document to 'failed' with error 'Status check failed' and issues no
\* request; after that the poller issues no request.
C6_FailedCheckStopsPolling ==
    [][\A p \in DOMAIN pollers :
          /\ (pollers[p].pc = "request" /\ pollers'[p].pc = "error")
             => /\ pollers'[p].requests = pollers[p].requests
                /\ ListedAs(docs'.documents, pollers[p].docId, "failed",
                            Some(<<"Status check failed">>))
          /\ pollers[p].pc = "error" => pollers'[p] = pollers[p]]_vars

C6_Witness ==
    \E p \in DOMAIN pollers :
        /\ pollers[p].pc = "error"
        /\ pollers[p].attempts > 0
        /\ server[pollers[p].docId].status = "processing"
        /\ location = "/"
        /\ IsListed(docs.documents, pollers[p].docId)
        /\ ListedAs(docs.documents, pollers[p].docId, "failed",
                    Some(<<"Status check failed">>))

\* C7: the step that handles a status response reporting another status than
\* 'processing' gives the listed document the fields of the response and
\* stops the poller for good; the step that handles a response reporting
\* 'processing' sets one timer and issues no request, and that timer, firing
\* with the budget not spent, issues exactly one request.
C7_ResponseDecidesNextRequest ==
    [][\A p \in DOMAIN pollers :
          LET docId == pollers[p].docId
              document == StatusBody(docId)
          IN /\ (pollers[p].pc = "request" /\ pollers'[p].pc \notin {"request", "error"})
                => IF document.status # "processing"
                   THEN /\ pollers'[p].pc = "terminal"
                        /\ pollers'[p].requests = pollers[p].requests
                        /\ \A i \in DOMAIN docs'.documents :
                               docs'.documents[i].id = docId
                               => \A f \in DOMAIN document :
                                      docs'.documents[i][f] = document[f]
                   ELSE /\ pollers'[p].pc = "timer"
                        /\ pollers'[p].attempts = pollers[p].attempts + 1
                        /\ pollers'[p].requests = pollers[p].requests
             /\ pollers[p].pc = "terminal" => pollers'[p] = pollers[p]
             /\ (/\ pollers[p].pc = "timer"
                 /\ pollers[p].attempts < maxAttempts
                 /\ pollers'[p] # pollers[p])
                => /\ pollers'[p].pc = "request"
                   /\ pollers'[p].requests = pollers[p].requests + 1]_vars

C7_Witness ==
    \E p \in DOMAIN pollers :
        /\ pollers[p].pc = "terminal"
        /\ pollers[p].attempts > 0
        /\ server[pollers[p].docId].status = "failed"
        /\ \E i \in DOMAIN docs.documents :
               /\ docs.documents[i].id = pollers[p].docId
               /\ docs.documents[i].status = "failed"
               /\ docs.documents[i].error = Some(<<"unreadable">>)
               /\ docs.documents[i].user_id = <<"u1">>

---------------------------------------------------------------------------
(* Properties of the token store *)

\* A call is settled in this step: an axios call leaves `pending`, or
\* askQuestion gets past its fetch.
Settles ==
    \/ Len(pending') < Len(pending)
    \/ \E e \in DOMAIN calls : calls[e].pc = "fetch" /\ calls'[e].pc # "fetch"

Is401(response) == response # Undefined /\ response[1].status = Some(401)

\* C8 as stated: the step that settles a call, whichever it is, with a 401
\* response clears the token of the token store and navigates to the login
\* screen.
C8_Every401SignsOut ==
    [][(Settles /\ Is401(lastResponse'))
       => /\ authToken' = Undefined
          /\ savedToken' = Undefined
          /\ location' = "/login"]_vars

\* C9 as stated: once a 401 response has been handled, storage holds neither
\* the token nor the cached user, and storage never holds a cached user
\* without a token.
C9_NoCachedSessionAfter401 ==
    /\ Is401(lastResponse) => savedToken = Undefined /\ savedUser = Undefined
    /\ savedUser # Undefined => savedToken # Undefined

\* C10: the in-memory token, the 'auth_token' entry and the default
\* Authorization header agree: all three carry the same token, or the
\* in-memory token is null and the entry and the header are absent.
C10_TokenStoreAgrees ==
    \/ /\ authToken # Undefined
       /\ savedToken = authToken
       /\ defaultAuth = Some(Bearer(authToken))
    \/ /\ authToken = Undefined
       /\ savedToken = Undefined
       /\ defaultAuth = Undefined

\* A session replaced: a stored session was signed out by a 401 and a later
\* login or registration has put another token in the store.
C10_Witness ==
    /\ location = "/login"
    /\ authToken = Some("t2")
    /\ savedToken = Some("t2")
    /\ defaultAuth = Some(Bearer(Some("t2")))
    /\ lastResponse # Undefined
    /\ lastResponse[1].status = Some(200)

---------------------------------------------------------------------------
(* Properties of the requests *)

\* Call e is created in this step: askQuestion has passed its guard and
\* built its request.
Asks(e) == e \in DOMAIN calls' /\ e \notin DOMAIN calls

\* C11 as stated, for /ask on a page whose auth state holds a user (the chat
\* page shows its form): the request carries `Bearer t` for the token t the
\* token store holds when the request is built.
C11_RequestsNameHeldToken ==
    [][\A e \in DOMAIN calls' :
          (Asks(e) /\ auth.user # Undefined)
          => /\ authToken # Undefined
             /\ calls'[e].request.authorization = Bearer(authToken)]_vars

---------------------------------------------------------------------------
(* Properties of askQuestion *)

\* C12: the step in which askQuestion(q) passes its guard appends to the
\* message list, which is otherwise unchanged, a user message with content q
\* and then an assistant message with empty content and loading = true.
C12_AskAppendsTwoMessages ==
    [][\A e \in DOMAIN calls' :
          (Asks(e) /\ calls'[e].retried = Undefined)
          => LET before == chat.messages
                 after == chat'.messages
                 n == Len(before)
             IN /\ Trim(calls'[e].question) # << >>
                /\ Len(after) = n + 2
                /\ SubSeq(after, 1, n) = before
                /\ after[n + 1].role = "user"
                /\ after[n + 1].content = calls'[e].question
                /\ after[n + 2].role = "assistant"
                /\ after[n + 2].content = << >>
                /\ Truthy(after[n + 2].loading)]_vars

\* A second question asked on a list that holds the first exchange.
C12_Witness ==
    /\ Len(calls) = 2
    /\ calls[2].pc = "fetch"
    /\ Len(chat.messages) = 4
    /\ chat.messages[1].key = UserKey(1)
    /\ chat.messages[2].key = AssistantKey(1)
    /\ ~Truthy(chat.messages[2].loading)
    /\ chat.messages[3].role = "user"
    /\ chat.messages[3].content = calls[2].question
    /\ chat.messages[4].role = "assistant"
    /\ Truthy(chat.messages[4].loading)

\* The text an `error` event is surfaced with: its own, or the fallback of
\* line 105 when it carries none.
ErrorText(chunk) ==
    IF chunk.error # << >> THEN chunk.error ELSE <<"Unknown error occurred">>

\* C13: the step that applies an `error` event ends the call (no later
\* event of its stream is applied: the frame never changes again), leaves
\* the placeholder, if listed, with content 'Sorry, I encountered an error: '
\* followed by the error text and loading = false, and leaves the chat state
\* with that error text and loading = false.
C13_ErrorEventAborts ==
    [][\A e \in DOMAIN calls :
          /\ \A chunk \in Chunks :
                (chunk.type = "error" /\ ApplyChunk(e, chunk))
                => /\ calls'[e].pc = "failed"
                   /\ chat'.error = Some(ErrorText(chunk))
                   /\ chat'.loading = FALSE
                   /\ HasMessage(chat'.messages, AssistantKey(e))
                      => LET placeholder == MessageOf(chat'.messages, AssistantKey(e))
                         IN /\ placeholder.content =
                                   <<"Sorry, I encountered an error: ">>
                                   \o ErrorText(chunk)
                            /\ placeholder.loading = Some(FALSE)
          /\ calls[e].pc = "failed" => calls'[e] = calls[e]]_vars

\* An error event after a token: the error string has replaced the text.
C13_Witness ==
    \E e \in DOMAIN calls :
        /\ calls[e].pc = "failed"
        /\ yielded = 2
        /\ chat.error = Some(<<"boom">>)
        /\ ~chat.loading
        /\ HasMessage(chat.messages, AssistantKey(e))
        /\ MessageOf(chat.messages, AssistantKey(e)).content
               = <<"Sorry, I encountered an error: ", "boom">>
        /\ MessageOf(chat.messages, AssistantKey(e)).loading = Some(FALSE)

\* What the catch block leaves behind for call e and the error text `detail`:
\* the call is over, the chat state holds the text and is not loading, the
\* placeholder (if listed) shows the text and is not loading.
EndsInError(e, detail) ==
    /\ calls'[e].pc = "failed"
    /\ chat'.error = Some(detail)
    /\ chat'.loading = FALSE
    /\ HasMessage(chat'.messages, AssistantKey(e))
       => LET placeholder == MessageOf(chat'.messages, AssistantKey(e))
          IN /\ placeholder.content = <<"Sorry, I encountered an error: ">> \o detail
             /\ placeholder.loading = Some(FALSE)

IsBlank(question) == \A i \in DOMAIN question : question[i] = " "

\* C20: askQuestion on an empty or whitespace-only question changes nothing:
\* the chat state (message list, loading flag, error, selection) is as
\* before and no /ask request is created.
C20_BlankQuestionChangesNothing ==
    [][\A question \in Questions :
          (IsBlank(question) /\ AskQuestion(question))
          => UNCHANGED <<chat, calls, now>>]_vars

\* A page on which a question would show: an exchange has failed, its error
\* is displayed, and another call may be made.
C20_Witness ==
    /\ Len(calls) = 1
    /\ Len(calls) < limits.calls
    /\ calls[1].pc = "failed"
    /\ chat.error = Some(<<"Not authenticated">>)
    /\ ~chat.loading
    /\ Len(chat.messages) = 2

---------------------------------------------------------------------------
(* Properties of parseStreamingResponse *)

\* A data line whose payload JSON.parse rejects.
IsMalformed(line) ==
    StartsWith(line, DataPrefix) /\ JsonParse(Slice(line, Len(DataPrefix))) = Undefined

\* The events of the well-formed data lines among `lines`, in order.
RECURSIVE EventsOf(_)
EventsOf(lines) ==
    IF lines = << >> THEN << >>
    ELSE LET line == Head(lines)
         IN (IF StartsWith(line, DataPrefix) /\ ~IsMalformed(line)
             THEN <<JsonParse(Slice(line, Len(DataPrefix)))[1]>> ELSE << >>)
            \o EventsOf(Tail(lines))

\* The newline-terminated lines of a body.
CompleteLines(body) == SubSeq(Split(body), 1, Len(Split(body)) - 1)

\* C15: the step that visits a data line whose payload is not valid JSON
\* yields nothing, does not end the generator (it goes on with the next line
\* or the next read) and leaves the chat state alone; and when the generator
\* is done it has yielded the events of all well-formed data lines of the
\* body, those before and after a malformed one included, in body order.
C15_MalformedLineIsSkipped ==
    [][/\ (parser.pc = "lines" /\ IsMalformed(Head(parser.lines)))
          => /\ parser'.pc \in {"lines", "read"}
             /\ parser'.yields = parser.yields
             /\ parser'.lines = Tail(parser.lines)
             /\ chat' = chat
       /\ parser'.pc = "done"
          => parser'.yields = EventsOf(CompleteLines(parser'.body))]_vars

\* A malformed line between two events, read in two chunks.
C15_Witness ==
    /\ parser.pc = "done"
    /\ parser.body = DataPrefix \o <<"{", "a", "}", "\n">>
                     \o DataPrefix \o <<"{", "a", "\n">>
                     \o DataPrefix \o <<"{", "b", "}", "\n">>
    /\ parser.yields = <<"a", "b">>

\* The chunks put together, and the part of the body read so far.
RECURSIVE Concat(_)
Concat(chunks) ==
    IF chunks = << >> THEN << >> ELSE Head(chunks) \o Concat(Tail(chunks))
ReadSoFar(p) == SubSeq(p.body, 1, Len(p.body) - Len(Concat(p.chunks)))

\* C29: at every point of the generator, what it has yielded together with
\* what the lines it still has to visit will yield is the sequence of events
\* of the newline-terminated lines of the text read so far, and the buffer is
\* the unterminated rest of that text: both are functions of the text alone,
\* not of where the reads cut it. Each well-formed data line is therefore
\* yielded once, in body order, and other lines yield nothing.
C29_YieldsDependOnTextOnly ==
    parser.pc # "idle" =>
        /\ Concat(parser.chunks) = SubSeq(parser.body, Len(ReadSoFar(parser)) + 1,
                                          Len(parser.body))
        /\ parser.yields \o EventsOf(parser.lines)
               = EventsOf(CompleteLines(ReadSoFar(parser)))
        /\ parser.pc \in {"read", "lines"}
               => parser.buffer = Split(ReadSoFar(parser))[Len(Split(ReadSoFar(parser)))]
        /\ parser.pc = "done" => /\ parser.chunks = << >>
                                 /\ parser.lines = << >>

\* A data line cut inside its payload by the reads: the first read has
\* yielded the line before it and kept its beginning, the second brings its
\* end.
C29_Witness ==
    /\ parser.pc = "read"
    /\ parser.yields = <<"a">>
    /\ parser.buffer = DataPrefix \o <<"{", "b">>
    /\ parser.chunks = << <<"}", "\n">> >>

---------------------------------------------------------------------------
(* Properties of the document list *)

\* The status the list shows for document d.
StatusOf(documents, d) ==
    documents[CHOOSE i \in DOMAIN documents : documents[i].id = d].status

\* C16: in the client's list a status that is 'ready' or 'failed' is final:
\* no step changes the status of a listed document that has one of them.
C16_StatusIsMonotonic ==
    [][\A d \in DOMAIN server :
          (/\ \E i \in DOMAIN docs.documents : docs.documents[i].id = d
           /\ \E i \in DOMAIN docs'.documents : docs'.documents[i].id = d
           /\ StatusOf(docs.documents, d) \in {"ready", "failed"})
          => StatusOf(docs'.documents, d) = StatusOf(docs.documents, d)]_vars

---------------------------------------------------------------------------
(* Properties of the registration form *)

\* The submissions the form rejects: an empty field, a password shorter than
\* 8 characters, a confirmation that differs, a malformed email.
FailsValidation(email, password, confirmPassword) ==
    \/ email = << >> \/ password = << >> \/ confirmPassword = << >>
    \/ Len(password) < 8
    \/ password # confirmPassword
    \/ ~EmailRegexTest(email)

\* C17 as stated: a submission that fails validation sends no register
\* request and changes nothing but the form's validation error, which it
\* sets: token store, cached user and auth state are as before.
C17_RejectedSubmitChangesFormOnly ==
    [][\A email \in Emails : \A password \in Passwords :
          \A confirmPassword \in Confirmations :
              (/\ FailsValidation(email, password, confirmPassword)
               /\ HandleSubmit(email, password, confirmPassword))
              => /\ pending' = pending
                 /\ form'.validationError # << >>
                 /\ UNCHANGED <<tokenVars, savedUser, auth>>]_vars

\* C17, amended: a submission that fails validation sends no register
\* request, sets the form's validation error and leaves token store, cached
\* user and the auth state's user, token and loading flag as they were; the
\* auth state's error is cleared.
C17_RejectedSubmitSendsNothing ==
    [][\A email \in Emails : \A password \in Passwords :
          \A confirmPassword \in Confirmations :
              (/\ FailsValidation(email, password, confirmPassword)
               /\ HandleSubmit(email, password, confirmPassword))
              => /\ pending' = pending
                 /\ form'.validationError # << >>
                 /\ UNCHANGED <<tokenVars, savedUser>>
                 /\ auth' = [auth EXCEPT !.error = Undefined]]_vars

\* A rejected submission after a registration the backend refused.
C17_Witness ==
    /\ form.validationError = <<"Password must be at least 8 characters long">>
    /\ lastResponse = Outcome("register", Some(500))
    /\ pending = << >>
    /\ auth.error = Undefined
    /\ ~auth.loading

---------------------------------------------------------------------------
(* Properties of the session *)

\* C18: logout, from whatever state, leaves the token store cleared (the
\* in-memory token, the storage entry and the default header), no cached
\* user, and the auth state with user = null, token = null, loading = false;
\* a login or registration that succeeds leaves the token store, the cached
\* user and the auth state with the token and the user of its response.
C18_SessionStateFollowsResponse ==
    [][/\ Logout
          => /\ authToken' = Undefined
             /\ savedToken' = Undefined
             /\ defaultAuth' = Undefined
             /\ savedUser' = Undefined
             /\ auth'.user = Undefined
             /\ auth'.token = Undefined
             /\ auth'.loading = FALSE
       /\ \A kind \in {"login", "register"} : \A i \in DOMAIN pending :
             \A account \in Accounts :
                 AuthenticateResolves(kind, i, account)
                 => /\ authToken' = Some(account.token)
                    /\ savedToken' = Some(account.token)
                    /\ defaultAuth' = Some(Bearer(Some(account.token)))
                    /\ savedUser' # Undefined
                    /\ JsonParse(savedUser'[1]) = Some(account.user)
                    /\ auth'.user = Some(account.user)
                    /\ auth'.token = Some(account.token)
                    /\ auth'.loading = FALSE]_vars

\* Signed out by logout after a login that had succeeded.
C18_Witness ==
    /\ mounted
    /\ lastResponse = Outcome("login", Some(200))
    /\ authToken = Undefined /\ savedToken = Undefined /\ defaultAuth = Undefined
    /\ savedUser = Undefined
    /\ auth = SignedOut
    /\ location = "/"

---------------------------------------------------------------------------
(* Properties of the document list under reload and delete *)

\* C26 as stated: where nothing is deleted, a document that is in the list
\* stays in the list, whatever the order in which uploads and the response to
\* the list request of the mount effect arrive.
C26_UploadedDocumentStaysListed ==
    [][\A d \in DOMAIN server :
          IsListed(docs.documents, d) => IsListed(docs'.documents, d)]_vars

\* C27: a document that has been deleted from the list (where no list reload
\* is pending, an uploaded document that is not listed) is not listed after
\* any step: no status response, request failure or timeout of its poller
\* puts it back.
C27_DeletedDocumentStaysDeleted ==
    [][\A d \in DOMAIN server :
          ~IsListed(docs.documents, d) => ~IsListed(docs'.documents, d)]_vars

\* A deleted document whose poller has gone on: it has had several responses
\* and waits for another.
C27_Witness ==
    \E p \in DOMAIN pollers :
        /\ pollers[p].pc = "request"
        /\ pollers[p].requests > 2
        /\ ~IsListed(docs.documents, pollers[p].docId)

---------------------------------------------------------------------------
(* Properties of session start-up *)

\* C28 as stated: when the mount effect has run, the token of the auth state
\* is the token the token store holds, the auth state has a user exactly when
\* a token is held, and loading is false, whatever storage held at start-up.
C28_StartupAgreesWithTokenStore ==
    [][InitAuth =>
          /\ auth'.token = authToken'
          /\ (auth'.user # Undefined) <=> (authToken' # Undefined)
          /\ auth'.loading = FALSE]_vars

---------------------------------------------------------------------------
(* Properties of the question form *)

\* An askQuestion call that has not returned.
InFlight(frame) == frame.pc \in {"fetch", "stream"}

====
